---- MODULE Spec2Model ----
(***************************************************************************)
(* Model of sonic_y_cable/y_cable.py: the register-level control/status    *)
(* functions of a Y cable (two TOR legs, one NIC leg, one MUX).            *)
(*                                                                         *)
(* The model follows the register set of one physical port: every function *)
(* passes physical_port unchanged to get_sfp and uses it nowhere else.     *)
(* The y_cable_simulator_client module is taken to be absent, so that      *)
(* hook_y_cable_simulator's wrapper calls the function defined here.       *)
(*                                                                         *)
(* Python values are records [kind, data]: kind is the Python type and     *)
(* data the value as a sequence of integers, so that values of different   *)
(* Python types can be compared.                                           *)
(***************************************************************************)
EXTENDS Integers, Sequences, FiniteSets, TLC

VARIABLES
    platform_chassis,   \* the module global: "None" or "loaded"
    eeprom,             \* device registers 642 (switch command) and 644 (MUX direction)
    op,                 \* the function called last
    result,             \* what the accessor returned to that call (the local `result`)
    ret,                \* what that call returned to its caller (or that it raised)
    calls,              \* the accessor calls that call made, in order
    log,                \* the levels of the lines that call logged, in order
    last_toggle         \* history: target of the last toggle whose write succeeded

vars == <<platform_chassis, eeprom, op, result, ret, calls, log, last_toggle>>

----------------------------------------------------------------------------
(* Register offsets *)

Y_CABLE_DETERMINE_CABLE_READ_SIDE == 640
Y_CABLE_CHECK_LINK_ACTIVE == 641
Y_CABLE_SWITCH_MUX_DIRECTION == 642
Y_CABLE_MUX_DIRECTION == 644
Y_CABLE_ACTIVE_TOR_INDICATOR == 645

(* Width of a register: struct.unpack(">B", ...) yields an unsigned byte. *)
MaxByte == 255

(* Bounds of the model *)
MaxReadLen == 2          \* longest byte sequence a read returns
LongByte == 1            \* bytes of the sequences of length # 1 are 0..LongByte

Byte == 0..MaxByte

----------------------------------------------------------------------------
(* Python values *)

PyNone == [kind |-> "None", data |-> <<>>]
PyBool(b) == [kind |-> "bool", data |-> <<IF b THEN 1 ELSE 0>>]
PyInt(n) == [kind |-> "int", data |-> <<n>>]
PyByteArray(s) == [kind |-> "bytearray", data |-> s]
PyBytes(s) == [kind |-> "bytes", data |-> s]
\* the call did not return: an exception reached the caller
PyRaise == [kind |-> "raise", data |-> <<>>]
\* no call yet
NoValue == [kind |-> "unset", data |-> <<>>]

\* x >> n and x & 0x01 on non-negative integers
Shr(x, n) == x \div (2 ^ n)
And1(x) == x % 2

----------------------------------------------------------------------------
(* The accessor (external): what read_eeprom(offset, 1) and write_eeprom   *)
(* may hand back.  A read returns None, an object that is not a bytearray, *)
(* or a bytearray of any length; a write returns a boolean.                *)

ReadResults ==
    {PyNone}
    \cup {PyBytes(s) : s \in {<<>>, <<1>>}}
    \cup {PyByteArray(<<b>>) : b \in Byte}
    \cup {PyByteArray(<<>>)}
    \cup UNION {{PyByteArray(s) : s \in [1..n -> 0..LongByte]} : n \in 2..MaxReadLen}

WriteResults == {PyBool(TRUE), PyBool(FALSE)}

get_sfp_call == <<"get_sfp">>
read_eeprom_call(offset, length) == <<"read_eeprom", offset, length>>
write_eeprom_call(offset, length, buffer) == <<"write_eeprom", offset, length, buffer>>

(* The device: a successful write of a hard switch (bit1 set) to the       *)
(* switch register points the MUX at the target of bit0 (0: TOR#1,         *)
(* 1: TOR#2); the direction register reads 0x01 for TOR#1, 0x00 for TOR#2. *)
device_write(regs, offset, buffer, ok) ==
    IF ok /\ offset = Y_CABLE_SWITCH_MUX_DIRECTION /\ Len(buffer) = 1
    THEN IF And1(Shr(buffer[1], 1)) = 1
         THEN [regs EXCEPT ![Y_CABLE_SWITCH_MUX_DIRECTION] = buffer[1],
                           ![Y_CABLE_MUX_DIRECTION] =
                               IF And1(buffer[1]) = 0 THEN 1 ELSE 0]
         ELSE [regs EXCEPT ![Y_CABLE_SWITCH_MUX_DIRECTION] = buffer[1]]
    ELSE regs

----------------------------------------------------------------------------
(* Pieces shared by the functions *)

\* variant: the test of the handle left out
chassis_is_loaded_unchecked(chassis) == TRUE

\* `if platform_chassis is not None`
chassis_is_loaded(chassis) == chassis # "None"

\* variant: the length test left out
read_is_usable_any_length(r) ==
    IF r # PyNone
    THEN r.kind = "bytearray"
    ELSE FALSE

\* the checks between the read and struct.unpack: TRUE when the function
\* goes on to decode, FALSE when it logs an error and returns -1
read_is_usable(r) ==
    IF r # PyNone
    THEN IF r.kind = "bytearray"
         THEN Len(r.data) = 1
         ELSE FALSE
    ELSE FALSE

\* struct.unpack(">B", result): a 1-tuple holding the unsigned byte, and
\* struct.error when the buffer is not exactly one byte long
unpack_raises(r) == Len(r.data) # 1
unpack_B(r) == <<r.data[1]>>

\* an outcome of a function body: return value and logged lines
Outcome(value, lines) == [ret |-> value, log |-> lines]

----------------------------------------------------------------------------
(* The decoders: what each function does with regval_read[0] once the read *)
(* has passed the checks.  `if x:` on an integer tests x # 0.              *)

\* variant: bit1 tested before bit2
read_side_decode_bit1_first(regval) ==
    IF And1(Shr(regval, 1)) # 0 THEN Outcome(PyInt(2), <<"info">>)
    ELSE IF And1(Shr(regval, 2)) # 0 THEN Outcome(PyInt(1), <<"info">>)
    ELSE IF And1(regval) # 0 THEN Outcome(PyInt(0), <<"info">>)
    ELSE Outcome(PyInt(-1), <<"error">>)

read_side_decode(regval) ==
    IF And1(Shr(regval, 2)) # 0 THEN Outcome(PyInt(1), <<"info">>)
    ELSE IF And1(Shr(regval, 1)) # 0 THEN Outcome(PyInt(2), <<"info">>)
    ELSE IF And1(regval) # 0 THEN Outcome(PyInt(0), <<"info">>)
    ELSE Outcome(PyInt(-1), <<"error">>)

\* variant: every value with bit0 clear taken as TOR B
mux_direction_decode_bit0_only(regval) ==
    IF And1(regval) # 0 THEN Outcome(PyInt(1), <<"info">>)
    ELSE Outcome(PyInt(2), <<"info">>)

mux_direction_decode(regval) ==
    IF And1(regval) # 0 THEN Outcome(PyInt(1), <<"info">>)
    ELSE IF regval = 0 THEN Outcome(PyInt(2), <<"info">>)
    ELSE Outcome(PyInt(-1), <<"error">>)

\* variant: bit0 tested before bit1
active_linked_tor_side_decode_bit0_first(regval) ==
    IF And1(regval) # 0 THEN Outcome(PyInt(1), <<"info">>)
    ELSE IF And1(Shr(regval, 1)) # 0 THEN Outcome(PyInt(2), <<"info">>)
    ELSE IF regval = 0 THEN Outcome(PyInt(0), <<"info">>)
    ELSE Outcome(PyInt(-1), <<"error">>)

active_linked_tor_side_decode(regval) ==
    IF And1(Shr(regval, 1)) # 0 THEN Outcome(PyInt(2), <<"info">>)
    ELSE IF And1(regval) # 0 THEN Outcome(PyInt(1), <<"info">>)
    ELSE IF regval = 0 THEN Outcome(PyInt(0), <<"info">>)
    ELSE Outcome(PyInt(-1), <<"error">>)

\* variant: the NIC view tests the whole byte, not bit0
link_active_NIC_decode_whole_byte(regval) ==
    IF regval # 0 THEN Outcome(PyBool(TRUE), <<"info">>)
    ELSE Outcome(PyBool(FALSE), <<>>)

link_active_NIC_decode(regval) ==
    IF And1(regval) # 0 THEN Outcome(PyBool(TRUE), <<"info">>)
    ELSE Outcome(PyBool(FALSE), <<>>)

\* variant: the TOR A view tests the TOR B bit
link_active_torA_decode_bit1(regval) ==
    IF And1(Shr(regval, 1)) # 0 THEN Outcome(PyBool(TRUE), <<"info">>)
    ELSE Outcome(PyBool(FALSE), <<>>)

link_active_torA_decode(regval) ==
    IF And1(Shr(regval, 2)) # 0 THEN Outcome(PyBool(TRUE), <<"info">>)
    ELSE Outcome(PyBool(FALSE), <<>>)

link_active_torB_decode(regval) ==
    IF And1(Shr(regval, 1)) # 0 THEN Outcome(PyBool(TRUE), <<"info">>)
    ELSE Outcome(PyBool(FALSE), <<>>)

Decoders == {"check_read_side", "check_mux_direction", "check_active_linked_tor_side",
             "check_if_link_is_active_for_NIC", "check_if_link_is_active_for_torA",
             "check_if_link_is_active_for_torB"}

LinkViews == {"check_if_link_is_active_for_NIC", "check_if_link_is_active_for_torA",
              "check_if_link_is_active_for_torB"}

Toggles == {"toggle_mux_to_torA", "toggle_mux_to_torB"}

\* the tests on regval_read[0] of the function called `name`
decode(name, regval) ==
    CASE name = "check_read_side" -> read_side_decode(regval)
      [] name = "check_mux_direction" -> mux_direction_decode(regval)
      [] name = "check_active_linked_tor_side" -> active_linked_tor_side_decode(regval)
      [] name = "check_if_link_is_active_for_NIC" -> link_active_NIC_decode(regval)
      [] name = "check_if_link_is_active_for_torA" -> link_active_torA_decode(regval)
      [] name = "check_if_link_is_active_for_torB" -> link_active_torB_decode(regval)

\* variant: a read that fails the checks returns -1 without a logged line
after_read_silent(name, r) ==
    IF read_is_usable(r)
    THEN IF unpack_raises(r)
         THEN Outcome(PyRaise, <<>>)
         ELSE decode(name, unpack_B(r)[1])
    ELSE Outcome(PyInt(-1), <<>>)

\* the part of a decoder after the read: checks, unpack, decode
after_read(name, r) ==
    IF read_is_usable(r)
    THEN IF unpack_raises(r)
         THEN Outcome(PyRaise, <<>>)
         ELSE decode(name, unpack_B(r)[1])
    ELSE Outcome(PyInt(-1), <<"error">>)

\* variant: toggle_mux_to_torB writes the TOR A command
torB_buffer_as_torA == <<2>>

\* `buffer` of the two toggles
torA_buffer == <<2>>
torB_buffer == <<3>>

\* variant: the write's result dropped
toggle_return_always_true(write_result) == PyBool(TRUE)

\* what a toggle returns once the write has come back: `return result`
toggle_return(write_result) == write_result

----------------------------------------------------------------------------
(* The state machine *)

Init ==
    /\ platform_chassis \in {"None", "loaded"}
    /\ \E d \in {0, 1} :
          eeprom = (Y_CABLE_SWITCH_MUX_DIRECTION :> 0) @@ (Y_CABLE_MUX_DIRECTION :> d)
    /\ op = "none"
    /\ result = NoValue
    /\ ret = NoValue
    /\ calls = <<>>
    /\ log = <<>>
    /\ last_toggle = "none"

\* variant: a link-active view that follows another one reuses its read
decoder_call_cached(name, offset) ==
    /\ op' = name
    /\ IF chassis_is_loaded(platform_chassis)
       THEN IF name \in LinkViews /\ op \in LinkViews
            THEN /\ calls' = <<>>
                 /\ result' = result
                 /\ ret' = after_read(name, result).ret
                 /\ log' = after_read(name, result).log
            ELSE \E r \in ReadResults :
                    /\ calls' = <<get_sfp_call, read_eeprom_call(offset, 1)>>
                    /\ result' = r
                    /\ ret' = after_read(name, r).ret
                    /\ log' = after_read(name, r).log
       ELSE /\ calls' = <<>>
            /\ result' = NoValue
            /\ ret' = PyInt(-1)
            /\ log' = <<"error">>
    /\ UNCHANGED <<platform_chassis, eeprom, last_toggle>>

\* a decoder: one read of 1 byte at its offset, then checks and decoding
decoder_call(name, offset) ==
    /\ op' = name
    /\ IF chassis_is_loaded(platform_chassis)
       THEN \E r \in ReadResults :
               /\ calls' = <<get_sfp_call, read_eeprom_call(offset, 1)>>
               /\ result' = r
               /\ ret' = after_read(name, r).ret
               /\ log' = after_read(name, r).log
       ELSE /\ calls' = <<>>
            /\ result' = NoValue
            /\ ret' = PyInt(-1)
            /\ log' = <<"error">>
    /\ UNCHANGED <<platform_chassis, eeprom, last_toggle>>

\* a toggle: one write of the 1-byte buffer at the switch register
toggle_call(name, buffer, target) ==
    /\ op' = name
    /\ IF chassis_is_loaded(platform_chassis)
       THEN \E w \in WriteResults :
               /\ calls' = <<get_sfp_call,
                             write_eeprom_call(Y_CABLE_SWITCH_MUX_DIRECTION, 1, buffer)>>
               /\ result' = w
               /\ ret' = toggle_return(w)
               /\ log' = <<>>
               /\ eeprom' = device_write(eeprom, Y_CABLE_SWITCH_MUX_DIRECTION, buffer,
                                         w = PyBool(TRUE))
               /\ last_toggle' = IF w = PyBool(TRUE) THEN target ELSE last_toggle
       ELSE /\ calls' = <<>>
            /\ result' = NoValue
            /\ ret' = PyBool(FALSE)
            /\ log' = <<"error">>
            /\ UNCHANGED <<eeprom, last_toggle>>
    /\ UNCHANGED platform_chassis

toggle_mux_to_torA == toggle_call("toggle_mux_to_torA", torA_buffer, "torA")

toggle_mux_to_torB == toggle_call("toggle_mux_to_torB", torB_buffer, "torB")

check_read_side ==
    decoder_call("check_read_side", Y_CABLE_DETERMINE_CABLE_READ_SIDE)

check_mux_direction ==
    decoder_call("check_mux_direction", Y_CABLE_MUX_DIRECTION)

check_active_linked_tor_side ==
    decoder_call("check_active_linked_tor_side", Y_CABLE_ACTIVE_TOR_INDICATOR)

check_if_link_is_active_for_NIC ==
    decoder_call("check_if_link_is_active_for_NIC", Y_CABLE_CHECK_LINK_ACTIVE)

check_if_link_is_active_for_torA ==
    decoder_call("check_if_link_is_active_for_torA", Y_CABLE_CHECK_LINK_ACTIVE)

check_if_link_is_active_for_torB ==
    decoder_call("check_if_link_is_active_for_torB", Y_CABLE_CHECK_LINK_ACTIVE)

Next ==
    \/ toggle_mux_to_torA
    \/ toggle_mux_to_torB
    \/ check_read_side
    \/ check_mux_direction
    \/ check_active_linked_tor_side
    \/ check_if_link_is_active_for_NIC
    \/ check_if_link_is_active_for_torA
    \/ check_if_link_is_active_for_torB

Spec == Init /\ [][Next]_vars

----------------------------------------------------------------------------
(* Properties *)

\* bit k of b is set
HasBit(b, k) == b % (2 ^ (k + 1)) >= 2 ^ k

\* the call read one byte: the accessor handed back a bytearray of length 1
ReadOneByte == result.kind = "bytearray" /\ Len(result.data) = 1

\* the log_error lines of the last call
ErrorLines == Len(SelectSeq(log, LAMBDA l : l = "error"))

\* the accessor calls of the last call that are reads, and that are writes
ReadCalls == SelectSeq(calls, LAMBDA c : c[1] = "read_eeprom")
WriteCalls == SelectSeq(calls, LAMBDA c : c[1] = "write_eeprom")

\* C1: for every byte b read at offset 640, check_read_side returns 1 if
\* bit2 of b is set, otherwise 2 if bit1 is set, otherwise 0 if bit0 is set,
\* otherwise -1; 0x07 gives 1 and 0x03 gives 2.
C1_ReadSidePriority ==
    (op = "check_read_side" /\ ReadOneByte) =>
        LET b == result.data[1] IN
        /\ calls[2] = <<"read_eeprom", 640, 1>>
        /\ ret = PyInt(IF HasBit(b, 2) THEN 1
                       ELSE IF HasBit(b, 1) THEN 2
                       ELSE IF HasBit(b, 0) THEN 0
                       ELSE -1)
        /\ (b = 7 => ret = PyInt(1))
        /\ (b = 3 => ret = PyInt(2))
        /\ (b % 8 # 0 => ret # PyInt(-1))

C1_Witness ==
    op = "check_read_side" /\ result = PyByteArray(<<7>>) /\ ret = PyInt(1)

\* C2: for every byte b read at offset 644, check_mux_direction returns 1 if
\* bit0 of b is set, 2 if b = 0, and -1 for every other value; never 0.
C2_MuxDirection ==
    (op = "check_mux_direction" /\ ReadOneByte) =>
        LET b == result.data[1] IN
        /\ calls[2] = <<"read_eeprom", 644, 1>>
        /\ ret = PyInt(IF HasBit(b, 0) THEN 1 ELSE IF b = 0 THEN 2 ELSE -1)
        /\ ret # PyInt(0)

C2_Witness ==
    op = "check_mux_direction" /\ result = PyByteArray(<<2>>) /\ ret = PyInt(-1)

\* C3: for every byte b read at offset 645, check_active_linked_tor_side
\* returns 2 if bit1 of b is set (also with bit0 set), otherwise 1 if bit0 is
\* set, otherwise 0 if b = 0, otherwise -1.
C3_ActiveLinkedTorSide ==
    (op = "check_active_linked_tor_side" /\ ReadOneByte) =>
        LET b == result.data[1] IN
        /\ calls[2] = <<"read_eeprom", 645, 1>>
        /\ ret = PyInt(IF HasBit(b, 1) THEN 2
                       ELSE IF HasBit(b, 0) THEN 1
                       ELSE IF b = 0 THEN 0
                       ELSE -1)

C3_Witness ==
    op = "check_active_linked_tor_side" /\ result = PyByteArray(<<3>>) /\ ret = PyInt(2)

\* C4: for every byte b read at offset 641, the NIC view returns True exactly
\* when bit0 of b is set, the TOR A view exactly when bit2 is set, the TOR B
\* view exactly when bit1 is set, and False otherwise, whatever the other bits.
C4_LinkActiveViews ==
    (op \in LinkViews /\ ReadOneByte) =>
        LET b == result.data[1] IN
        /\ calls[2] = <<"read_eeprom", 641, 1>>
        /\ (op = "check_if_link_is_active_for_NIC" => ret = PyBool(HasBit(b, 0)))
        /\ (op = "check_if_link_is_active_for_torA" => ret = PyBool(HasBit(b, 2)))
        /\ (op = "check_if_link_is_active_for_torB" => ret = PyBool(HasBit(b, 1)))

C4_Witness ==
    /\ op = "check_if_link_is_active_for_torA"
    /\ result = PyByteArray(<<5>>)
    /\ ret = PyBool(TRUE)

C7_ToggleWrite ==
    (op \in Toggles /\ platform_chassis = "loaded") =>
        /\ Len(WriteCalls) = 1
        /\ Len(ReadCalls) = 0
        /\ (op = "toggle_mux_to_torA" => WriteCalls[1] = <<"write_eeprom", 642, 1, <<2>>>>)
        /\ (op = "toggle_mux_to_torB" => WriteCalls[1] = <<"write_eeprom", 642, 1, <<3>>>>)
        /\ result \in WriteResults
        /\ ret = result

C7_Witness ==
    /\ op = "toggle_mux_to_torA"
    /\ platform_chassis = "loaded"
    /\ result = PyBool(FALSE)
    /\ ret = PyBool(FALSE)
    /\ last_toggle = "torB"

\* the read handed back the one byte the direction register holds
ReadDeliveredDirection == result = PyByteArray(<<eeprom[Y_CABLE_MUX_DIRECTION]>>)

\* C8: on a device that follows the register description, a
\* check_mux_direction whose read delivers the direction register returns 2
\* when the last successful toggle was toggle_mux_to_torB and 1 when it was
\* toggle_mux_to_torA, whatever reads and failed toggles came in between.
C8_DirectionFollowsToggle ==
    (op = "check_mux_direction" /\ ReadDeliveredDirection) =>
        /\ (last_toggle = "torB" => ret = PyInt(2))
        /\ (last_toggle = "torA" => ret = PyInt(1))

C8_Witness ==
    /\ op = "check_mux_direction"
    /\ ReadDeliveredDirection
    /\ last_toggle = "torB"
    /\ ret = PyInt(2)

\* C9: the three link-active views return a boolean for every outcome of the
\* register access, and no other value.
C9_LinkActiveReturnsBoolean ==
    op \in LinkViews => ret.kind = "bool"

\* the last call failed: it returned its sentinel
Failed ==
    \/ op \in Decoders /\ ret = PyInt(-1)
    \/ op \in Toggles /\ ret = PyBool(FALSE)

\* the last call was a toggle whose write the accessor reported as failed
WriteFailed == op \in Toggles /\ result = PyBool(FALSE)

\* C10 as stated: every failed call logs exactly one error line, for every
\* failure kind including a failed write, and a successful call logs none.
C10_OneErrorLinePerFailure ==
    op # "none" => ErrorLines = (IF Failed THEN 1 ELSE 0)

\* C10 as amended: a call that fails because the chassis is not loaded, the
\* read is absent or malformed, or the bit pattern is unrecognized logs
\* exactly one error line and returns its sentinel; a toggle whose write the
\* accessor reports as failed returns False and logs no line; a successful
\* call logs no error line.
C10_OneErrorLineExceptFailedWrite ==
    op # "none" =>
        IF WriteFailed
        THEN ret = PyBool(FALSE) /\ log = <<>>
        ELSE ErrorLines = (IF Failed THEN 1 ELSE 0)

C10_Witness ==
    /\ op = "check_active_linked_tor_side"
    /\ result = PyNone
    /\ ret = PyInt(-1)
    /\ log = <<"error">>

\* b with the bits cleared that the decoder `name` does not name: all but
\* bits 0..2 for check_read_side, all but bit0 for check_mux_direction and the
\* NIC view, all but bits 0..1 for check_active_linked_tor_side, all but bit2
\* for the TOR A view, all but bit1 for the TOR B view
ClearReserved(name, b) ==
    CASE name = "check_read_side" -> b % 8
      [] name = "check_mux_direction" -> b % 2
      [] name = "check_active_linked_tor_side" -> b % 4
      [] name = "check_if_link_is_active_for_NIC" -> b % 2
      [] name = "check_if_link_is_active_for_torA" -> ((b \div 4) % 2) * 4
      [] name = "check_if_link_is_active_for_torB" -> ((b \div 2) % 2) * 2

\* the byte read has every named bit clear and some other bit set
OnlyReservedBits(name, b) == b # 0 /\ ClearReserved(name, b) = 0

\* C11 as stated: for every decoder and every byte b, the call that read b
\* returns what the decoder gives for b with its reserved bits cleared.
C11_ReservedBitsIgnored ==
    (op \in Decoders /\ ReadOneByte) =>
        ret = decode(op, ClearReserved(op, result.data[1])).ret

\* C11 as amended: check_read_side and the three link-active views return
\* for b what they give for b with the reserved bits cleared; so do
\* check_mux_direction and check_active_linked_tor_side unless b has every
\* named bit clear and some other bit set, where they return -1 while the
\* cleared byte 0 gives 2 resp. 0.
C11_ReservedBitsIgnoredUnlessAlone ==
    (op \in Decoders /\ ReadOneByte) =>
        LET b == result.data[1]
            whole == op \in {"check_mux_direction", "check_active_linked_tor_side"}
        IN  IF whole /\ OnlyReservedBits(op, b)
            THEN /\ ret = PyInt(-1)
                 /\ decode(op, ClearReserved(op, b)).ret =
                        PyInt(IF op = "check_mux_direction" THEN 2 ELSE 0)
            ELSE ret = decode(op, ClearReserved(op, b)).ret

C11_Witness ==
    /\ op = "check_if_link_is_active_for_NIC"
    /\ result = PyByteArray(<<254>>)
    /\ ret = PyBool(FALSE)

\* the offset each decoder reads
DecoderOffset(name) ==
    CASE name = "check_read_side" -> 640
      [] name = "check_mux_direction" -> 644
      [] name = "check_active_linked_tor_side" -> 645
      [] name \in LinkViews -> 641

\* the bit a link-active view reports
LinkBit(name) ==
    CASE name = "check_if_link_is_active_for_NIC" -> 0
      [] name = "check_if_link_is_active_for_torA" -> 2
      [] name = "check_if_link_is_active_for_torB" -> 1

\* C12: with the chassis loaded, every decoder call, whatever call came
\* before it and whether it succeeds or fails, makes exactly one read, of
\* length 1 at its own offset (640, 644, 645, 641 for each link-active view),
\* and no write; a link-active view reports the bit of the byte its own read
\* returned; and the call leaves the device registers and platform_chassis as
\* they were.
C12_DecoderReadsOnceChangesNothing ==
    [][(op' \in Decoders /\ platform_chassis = "loaded") =>
          /\ calls' = << <<"get_sfp">>, <<"read_eeprom", DecoderOffset(op'), 1>> >>
          /\ Len(SelectSeq(calls', LAMBDA c : c[1] = "read_eeprom")) = 1
          /\ Len(SelectSeq(calls', LAMBDA c : c[1] = "write_eeprom")) = 0
          /\ result' \in ReadResults
          /\ ((op' \in LinkViews /\ result'.kind = "bytearray" /\ Len(result'.data) = 1)
                 => ret' = PyBool(HasBit(result'.data[1], LinkBit(op'))))
          /\ eeprom' = eeprom
          /\ platform_chassis' = platform_chassis
      ]_vars

C12_Witness ==
    /\ op = "check_if_link_is_active_for_torB"
    /\ platform_chassis = "loaded"
    /\ calls = << <<"get_sfp">>, <<"read_eeprom", 641, 1>> >>
    /\ result = PyByteArray(<<2>>)
    /\ ret = PyBool(TRUE)
    /\ last_toggle = "torA"
    /\ eeprom[Y_CABLE_MUX_DIRECTION] = 1

====
